---- MODULE Spec2Model ----
(***************************************************************************)
(* Model of the race telemetry service of f1_data_backend:                 *)
(* app/services/f1_telemetry.py (get_race_telemetry) with its file cache   *)
(* and its S3 upload (app/services/f1_s3_bucket.py).                       *)
(*                                                                         *)
(* Units.  Timestamps are integers, one unit = DT/2 = 0.02 s, so that a    *)
(* race span need not be a multiple of DT.  Raw distances and coordinates  *)
(* are integers (metres); interpolated values are exact rationals          *)
(* [num, den]; rounded values are integers counting 10^-precision units    *)
(* (tenths for precision 1).  The channels y, rel_dist, speed, gear, drs   *)
(* and tyre travel through the same concatenate / argsort / interp path as *)
(* x, dist and lap, which are the channels the model carries.              *)
(***************************************************************************)
EXTENDS Integers, Sequences, FiniteSets, TLC

\* ---------------------------------------------------------------- bounds
MaxT == 5
MaxD == 1
MaxLapSamples == 2
MaxEvents == 2
MaxSkip == 2

\* ----------------------------------------------------- program constants
\* DT = 1 / FPS seconds = 2 clock units
DT == 2
\* 10 ^ DISTANCE_PRECISION
DistScale == 10
\* 10 ^ POSITION_PRECISION
PosScale == 10

\* a non-finite float (numpy nan) in a raw or rounded channel; finite
\* channel values of the model are >= 0
NaN == 0 - 1
\* JSON null where a number was expected (orjson writes nan as null)
Null == 0 - 2
\* Python None / absent value, and a present value
None == <<>>
Some(v) == <<v>>

Codes == {"A", "B"}
Statuses == {"1", "4"}

Min(S) == CHOOSE m \in S : \A n \in S : m <= n
Max(S) == CHOOSE m \in S : \A n \in S : m >= n
SeqRange(s) == {s[i] : i \in 1..Len(s)}

\* ------------------------------------------------- the session provider
\* one telemetry row of one lap (lap.get_telemetry())
Samples(xs) == [t : 0..MaxT, d : 0..MaxD, x : xs]

\* the telemetry of one lap: rows in time order, distance accumulating
LapTels(xs, n) ==
  {tel \in UNION {[1..k -> Samples(xs)] : k \in 0..n} :
     \A i \in 1..(Len(tel) - 1) :
        tel[i].t < tel[i + 1].t /\ tel[i].d <= tel[i + 1].d}

\* session.drivers: every ordering of every set of codes
DriverLists ==
  {ds \in UNION {[1..k -> Codes] : k \in 0..Cardinality(Codes)} :
     \A i, j \in 1..Len(ds) : i # j => ds[i] # ds[j]}

\* session.track_status rows
Events ==
  UNION {[1..k -> [Time : 0..MaxT, Status : Statuses]] : k \in 0..MaxEvents}

\* the telemetry of one lap with a row every metre
UnitStepTels(xs, n) ==
  {tel \in LapTels(xs, n) : \A i \in 1..Len(tel) : tel[i].d = i - 1}

\* numbers a sequence of lap telemetries as laps 1, 2, ...
AsLaps(tels) == [i \in 1..Len(tels) |-> [LapNumber |-> i, tel |-> tels[i]]]

\* a driver of a race: no lap, or one lap (which may be empty)
OneLap(tels) == {<<>>} \cup {AsLaps(<<tel>>) : tel \in tels}

\* a race of several drivers, each with at most one lap
RaceSessions ==
  UNION {{[drivers |-> ds, laps |-> ls, track_status |-> <<>>] :
            ls \in {l \in [Codes -> OneLap(UnitStepTels({0}, MaxLapSamples))] :
                      \A c \in Codes \ SeqRange(ds) : l[c] = <<>>}} :
         ds \in DriverLists}

\* one driver with one lap or with two laps, which may overlap in time
LapSessions ==
  {[drivers |-> <<"A">>,
    laps |-> [c \in Codes |-> IF c = "A" THEN AsLaps(tels) ELSE <<>>],
    track_status |-> <<>>] :
     tels \in {<<a>> : a \in UnitStepTels({0}, MaxLapSamples)} \cup
              (UnitStepTels({0}, MaxLapSamples) \X UnitStepTels({0}, MaxLapSamples))}

\* one driver, one lap starting at any distance, coordinates that may be nan
IntegritySessions ==
  {[drivers |-> <<"A">>,
    laps |-> [c \in Codes |-> IF c = "A" THEN ls ELSE <<>>],
    track_status |-> <<>>] :
     ls \in OneLap(LapTels({0, 1, NaN}, MaxLapSamples))}

\* one driver, one single-row lap, any track status rows
StatusSessions ==
  {[drivers |-> <<"A">>,
    laps |-> [c \in Codes |-> IF c = "A" THEN AsLaps(<<<<s>>>>) ELSE <<>>],
    track_status |-> ev] :
     s \in [t : 0..MaxT, d : {0}, x : {0}], ev \in Events}

\* the races the service is called for: one driver, one lap
ServiceSessions ==
  {[drivers |-> <<"A">>,
    laps |-> [c \in Codes |-> IF c = "A" THEN ls ELSE <<>>],
    track_status |-> <<>>] :
     ls \in OneLap(UnitStepTels({0, NaN}, MaxLapSamples))}

Sessions == RaceSessions \cup LapSessions \cup IntegritySessions \cup StatusSessions

\* ------------------------------------------- 1. per-driver telemetry
\* the lap loop: normalise each lap's distance to start at 0, offset it by
\* the length of the laps before it, and concatenate the rows of all laps
RECURSIVE ConcatLaps(_, _, _)
ConcatLaps(laps, i, total_dist_so_far) ==
  IF i > Len(laps) THEN <<>>
  ELSE LET lap_tel == laps[i].tel IN
    IF lap_tel = <<>> THEN ConcatLaps(laps, i + 1, total_dist_so_far)
    ELSE
      LET dmin == Min({lap_tel[j].d : j \in 1..Len(lap_tel)})
          d_lap == [j \in 1..Len(lap_tel) |-> lap_tel[j].d - dmin]
          lap_length == Max(SeqRange(d_lap))
          rows == [j \in 1..Len(lap_tel) |->
                     [t |-> lap_tel[j].t, x |-> lap_tel[j].x,
                      dist |-> total_dist_so_far + d_lap[j],
                      lap |-> laps[i].LapNumber]]
      IN rows \o ConcatLaps(laps, i + 1, total_dist_so_far + lap_length)

\* np.argsort(t) with the default kind (introsort, not stable): every index
\* order that sorts t; rows of equal t may come out in any order
RECURSIVE ArgSorts(_, _)
ArgSorts(t, idx) ==
  IF idx = {} THEN {<<>>}
  ELSE LET m == Min({t[i] : i \in idx}) IN
    UNION {{<<i>> \o r : r \in ArgSorts(t, idx \ {i})} :
             i \in {j \in idx : t[j] = m}}

\* a[order] applied to every channel
Take(rows, order) == [i \in 1..Len(order) |-> rows[order[i]]]

\* the rows of one driver in every order np.argsort may give them
Sorted(rows) ==
  {Take(rows, order) :
     order \in ArgSorts([i \in 1..Len(rows) |-> rows[i].t], 1..Len(rows))}

\* DriverData that also skips a driver with fewer than two rows
RECURSIVE DriverData_NeedsTwoRows(_, _)
DriverData_NeedsTwoRows(s, i) ==
  IF i > Len(s.drivers) THEN {<<>>}
  ELSE LET code == s.drivers[i]
           laps_driver == s.laps[code]
           rows == ConcatLaps(laps_driver, 1, 0)
       IN IF laps_driver = <<>> \/ Len(rows) < 2
          THEN DriverData_NeedsTwoRows(s, i + 1)
          ELSE {<<[code |-> code, data |-> d]>> \o rest :
                  d \in Sorted(rows), rest \in DriverData_NeedsTwoRows(s, i + 1)}

\* driver_data, as the list of its (code, channels) items in insertion
\* order: drivers without laps or with only empty laps are skipped
RECURSIVE DriverData(_, _)
DriverData(s, i) ==
  IF i > Len(s.drivers) THEN {<<>>}
  ELSE LET code == s.drivers[i]
           laps_driver == s.laps[code]
           rows == ConcatLaps(laps_driver, 1, 0)
       IN IF laps_driver = <<>> \/ rows = <<>> THEN DriverData(s, i + 1)
          ELSE {<<[code |-> code, data |-> d]>> \o rest :
                  d \in Sorted(rows), rest \in DriverData(s, i + 1)}

\* global_t_min / global_t_max: None while no driver has been stored
AllT(dd) == UNION {{dd[i].data[j].t : j \in 1..Len(dd[i].data)} : i \in 1..Len(dd)}
GlobalTMin(dd) == IF dd = <<>> THEN None ELSE Some(Min(AllT(dd)))
GlobalTMax(dd) == IF dd = <<>> THEN None ELSE Some(Max(AllT(dd)))

\* ------------------------------------------------------- 2. timeline
\* np.arange(global_t_min, global_t_max, DT) - global_t_min:
\* ceil(span / DT) ticks 0, DT, 2 DT, ... below the span
\* Arange that drops the last, partial step: floor(span / step) values
Arange_Floor(start, stop, step) ==
  LET n == IF stop > start THEN (stop - start) \div step ELSE 0
  IN [i \in 1..n |-> start + (i - 1) * step]

Arange(start, stop, step) ==
  LET n == IF stop > start THEN (stop - start + step - 1) \div step ELSE 0
  IN [i \in 1..n |-> start + (i - 1) * step]
Timeline(t_min, t_max) ==
  LET a == Arange(t_min, t_max, DT) IN [i \in 1..Len(a) |-> a[i] - t_min]

\* ------------------------------------------------------ 3. resampling
Rat(n, d) == [num |-> n, den |-> d]
NaNRat == Rat(0, 0)
Float(v) == IF v = NaN THEN NaNRat ELSE Rat(v, 1)

\* an interpolation that has no value outside [xp[0], xp[-1]]
Interp_NoClamp(x, xp, fp) ==
  LET n == Len(xp) IN
  IF x > xp[n] \/ x < xp[1] THEN NaNRat
  ELSE LET j == Max({i \in 1..n : xp[i] <= x}) IN
    IF j = n THEN Float(fp[j])
    ELSE IF xp[j] = x THEN Float(fp[j])
    ELSE IF fp[j] = NaN \/ fp[j + 1] = NaN THEN NaNRat
    ELSE Rat(fp[j] * (xp[j + 1] - xp[j]) + (fp[j + 1] - fp[j]) * (x - xp[j]),
             xp[j + 1] - xp[j])

\* np.interp(x, xp, fp) for one x: clamped outside [xp[0], xp[-1]], the
\* sample itself on an exact hit, the chord through the two neighbours
\* otherwise; a nan neighbour makes the chord nan
Interp(x, xp, fp) ==
  LET n == Len(xp) IN
  IF x > xp[n] THEN Float(fp[n])
  ELSE IF x < xp[1] THEN Float(fp[1])
  ELSE LET j == Max({i \in 1..n : xp[i] <= x}) IN
    IF j = n THEN Float(fp[j])
    ELSE IF xp[j] = x THEN Float(fp[j])
    ELSE IF fp[j] = NaN \/ fp[j + 1] = NaN THEN NaNRat
    ELSE Rat(fp[j] * (xp[j + 1] - xp[j]) + (fp[j + 1] - fp[j]) * (x - xp[j]),
             xp[j + 1] - xp[j])

\* the second np.argsort, on the shifted timestamps of each driver
RECURSIVE Resorted(_, _)
Resorted(dd, i) ==
  IF i > Len(dd) THEN {<<>>}
  ELSE {<<[code |-> dd[i].code, data |-> d]>> \o rest :
          d \in Sorted(dd[i].data), rest \in Resorted(dd, i + 1)}

\* resampled_data, in the insertion order of driver_data
Resample(sd, t_min, tl) ==
  [k \in 1..Len(sd) |->
     LET data == sd[k].data
         t_sorted == [j \in 1..Len(data) |-> data[j].t - t_min]
         chan(f) == [i \in 1..Len(tl) |-> Interp(tl[i], t_sorted, f)]
     IN [code |-> sd[k].code,
         x |-> chan([j \in 1..Len(data) |-> data[j].x]),
         dist |-> chan([j \in 1..Len(data) |-> data[j].dist]),
         lap |-> chan([j \in 1..Len(data) |-> data[j].lap])]]

\* --------------------------------------------------- 4. track status
\* FormatTrackStatuses that never closes the previous interval
RECURSIVE FormatTrackStatuses_Open(_, _, _, _)
FormatTrackStatuses_Open(track_status, i, t_min, acc) ==
  IF i > Len(track_status) THEN acc
  ELSE FormatTrackStatuses_Open(track_status, i + 1, t_min,
         Append(acc, [status |-> track_status[i].Status,
                      start_time |-> track_status[i].Time - t_min,
                      end_time |-> None]))

RECURSIVE FormatTrackStatuses(_, _, _, _)
FormatTrackStatuses(track_status, i, t_min, acc) ==
  IF i > Len(track_status) THEN acc
  ELSE
    LET start_time == track_status[i].Time - t_min
        closed == IF acc = <<>> THEN acc
                  ELSE [acc EXCEPT ![Len(acc)].end_time = Some(start_time)]
    IN FormatTrackStatuses(track_status, i + 1, t_min,
         Append(closed, [status |-> track_status[i].Status,
                         start_time |-> start_time,
                         end_time |-> None]))

\* ------------------------------------------- 5. frames and leaderboard
\* round half to even of n / d, for n >= 0 and d > 0
RoundHalfEven(n, d) ==
  LET q == n \div d
      r == n % d
  IN IF 2 * r < d THEN q
     ELSE IF 2 * r > d THEN q + 1
     ELSE IF q % 2 = 0 THEN q ELSE q + 1

\* round(float(v), precision), counted in units of 1 / scale; nan stays nan
Round(v, scale) ==
  IF v.den = 0 THEN NaN ELSE RoundHalfEven(v.num * scale, v.den)

\* the snapshot list of tick i, one entry per driver of resampled_data
Snapshot(rd, i) ==
  [k \in 1..Len(rd) |->
     [code |-> rd[k].code,
      dist |-> Round(rd[k].dist[i], DistScale),
      x |-> Round(rd[k].x[i], PosScale),
      lap |-> Round(rd[k].lap[i], 1)]]

\* snapshot.sort(key=lambda r: r["dist"], reverse=True): a stable sort,
\* entries of equal dist keep the order they had in the snapshot
RECURSIVE SortByDist(_)
SortByDist(snapshot) ==
  IF snapshot = <<>> THEN <<>>
  ELSE
    LET n == Len(snapshot)
        e == snapshot[n]
        sorted == SortByDist(SubSeq(snapshot, 1, n - 1))
        k == Cardinality({j \in 1..Len(sorted) : sorted[j].dist >= e.dist})
    IN SubSeq(sorted, 1, k) \o <<e>> \o SubSeq(sorted, k + 1, Len(sorted))

\* Frame with competition ranking: drivers of equal dist share a position
Frame_SharedRank(rd, tl, i) ==
  LET snapshot == SortByDist(Snapshot(rd, i))
      leader == snapshot[1]
      idx(c) == CHOOSE k \in 1..Len(snapshot) : snapshot[k].code = c
  IN [t |-> tl[i],
      lap |-> leader.lap,
      drivers |-> [c \in {snapshot[k].code : k \in 1..Len(snapshot)} |->
                     [x |-> snapshot[idx(c)].x,
                      dist |-> snapshot[idx(c)].dist,
                      lap |-> snapshot[idx(c)].lap,
                      position |-> 1 + Cardinality({k \in 1..Len(snapshot) :
                                        snapshot[k].dist > snapshot[idx(c)].dist})]]]

\* one frame: position = index in the sorted snapshot + 1; t is a multiple
\* of DT, which round(float(t), 2) leaves as it is
Frame(rd, tl, i) ==
  LET snapshot == SortByDist(Snapshot(rd, i))
      leader == snapshot[1]
      idx(c) == CHOOSE k \in 1..Len(snapshot) : snapshot[k].code = c
  IN [t |-> tl[i],
      lap |-> leader.lap,
      drivers |-> [c \in {snapshot[k].code : k \in 1..Len(snapshot)} |->
                     [x |-> snapshot[idx(c)].x,
                      dist |-> snapshot[idx(c)].dist,
                      lap |-> snapshot[idx(c)].lap,
                      position |-> idx(c)]]]

\* the frame loop: a tick with an empty snapshot is skipped
Frames(rd, tl) ==
  IF rd = <<>> THEN <<>> ELSE [i \in 1..Len(tl) |-> Frame(rd, tl, i)]

\* EveryNth that keeps the last frame of every group of k: frames[k-1::k]
EveryNth_Last(fs, k) ==
  [i \in 1..(Len(fs) \div k) |-> fs[i * k]]

\* frames[::frame_skip]
EveryNth(fs, k) ==
  [i \in 1..((Len(fs) + k - 1) \div k) |-> fs[(i - 1) * k + 1]]

\* the return value's frames: sliced only if frame_skip > 1
ApplyFrameSkip(fs, frame_skip) ==
  IF frame_skip > 1 THEN EveryNth(fs, frame_skip) ELSE fs

\* get_driver_color_mapping, hex colours turned into [r, g, b]
get_driver_colors(s) == [c \in SeqRange(s.drivers) |-> <<0, 0, 0>>]

\* ------------------------------------------------ cache file and S3
\* orjson.dumps: finite numbers as they are, nan as null
DumpsNumber(v) == IF v = NaN THEN Null ELSE v
Dumps(data) ==
  [data EXCEPT !.frames =
     [i \in 1..Len(data.frames) |->
        [data.frames[i] EXCEPT !.drivers =
           [c \in DOMAIN data.frames[i].drivers |->
              [data.frames[i].drivers[c] EXCEPT
                 !.x = DumpsNumber(data.frames[i].drivers[c].x)]]]]]
\* orjson.loads: the value the text denotes
Loads(text) == text

\* the length of a text, in chunks: one for each frame and one for the
\* rest of the document, which closes it
Size(text) == Len(text.frames) + 1

\* what f.read() returns when the file holds the first size chunks of text
Prefix(text, size) ==
  [text EXCEPT !.frames = SubSeq(text.frames, 1, Min({size, Len(text.frames)}))]

\* a parser that takes whatever part of the document it is given
Decodes_Lenient(text, size) == size >= 0

\* orjson.loads returns for the whole document only: an empty or a cut
\* document raises JSONDecodeError
Decodes(text, size) == size = Size(text)

\* ------------------------------------------------------------- state
VARIABLES
  session,      \* what the session provider returns for the race
  cache,        \* computed_data/<event>_race_telemetry.json: None or Some(json)
  s3,           \* telemetry/<year>/<round>/skip_<k>.json.gz, by k
  pc,           \* where the current get_race_telemetry call is
  req,          \* its arguments refresh_data and frame_skip
  progress,     \* the percentages its progress_callback has been handed
  driver_data, global_t_min, global_t_max, timeline, resampled_data,
  formatted_track_statuses, frames,
  result,       \* the returned dictionary: None or Some(data)
  error,        \* the exception that left the call: None or Some(name)
  before,       \* the cache file and the S3 objects as the call found them
  cache_size,   \* how much of its text the cache file holds, in chunks
  writer,       \* another invocation that is writing the cache file
  handler,      \* the request handler of the router that is being served
  sent,         \* the messages sent on the WebSocket of the handler
  response,     \* the HTTP response of the handler: None or Some(response)
  ppc,          \* where process_and_save_telemetry is
  percentages,  \* the percentages its progress_callback has been handed
  presult       \* the dictionary it returned: None or Some(result)

locals == <<progress, driver_data, global_t_min, global_t_max, timeline,
           resampled_data,
            formatted_track_statuses, frames>>
api == <<handler, sent, response, ppc, percentages, presult>>
vars == <<session, cache, cache_size, writer, s3, pc, req, locals, result,
         error, before, api>>

full_result ==
  [frames |-> frames,
   driver_colors |-> get_driver_colors(session),
   track_statuses |-> formatted_track_statuses]

ClearLocals ==
  /\ progress' = <<>>
  /\ driver_data' = <<>>
  /\ global_t_min' = None
  /\ global_t_max' = None
  /\ timeline' = <<>>
  /\ resampled_data' = <<>>
  /\ formatted_track_statuses' = <<>>
  /\ frames' = <<>>

\* get_race_telemetry(session, refresh_data, cache_dir, frame_skip,
\* progress_callback) is entered; progress_callback tells whether a hook
\* is supplied
Invoke(refresh_data, frame_skip, progress_callback) ==
  /\ pc \in {"idle", "done", "failed"}
  /\ pc' = "check"
  /\ req' = [refresh_data |-> refresh_data, frame_skip |-> frame_skip,
             progress_callback |-> progress_callback]
  /\ ClearLocals
  /\ result' = None
  /\ error' = None
  /\ before' = [cache |-> cache, s3 |-> s3]
  /\ UNCHANGED <<session, cache, cache_size, writer, s3>>

\* a request arrives: get_race_telemetry(session, refresh_data, frame_skip),
\* as the router calls it, without a hook
Call(refresh_data, frame_skip) ==
  /\ Invoke(refresh_data, frame_skip, FALSE)
  /\ UNCHANGED api

\* the cache file exists, refresh_data is false and what the file holds is
\* decoded: return its content
CacheHit ==
  /\ pc = "check"
  /\ ~req.refresh_data
  /\ cache # None
  /\ Decodes(cache[1], cache_size)
  /\ LET data == Loads(Prefix(cache[1], cache_size))
     IN result' = Some([data EXCEPT
                          !.frames = ApplyFrameSkip(data.frames, req.frame_skip)])
  /\ pc' = "done"
  /\ UNCHANGED <<session, cache, cache_size, writer,
                 s3, req, locals, error, before, api>>

\* the percentage reported for the driver at index i of enumerate(drivers),
\* with a range of 50 instead of 40
DriverProgress_WideRange(i, total_drivers) ==
  Rat(30 * total_drivers + (i + 1) * 50, total_drivers)

\* progress = 30.0 + (i / total_drivers * 40.0), i counted from 0
DriverProgress(i, total_drivers) ==
  Rat(30 * total_drivers + i * 40, total_drivers)

\* the percentages of the "Loading telemetry" loop, one per listed driver
LoadingProgress(drivers) ==
  [j \in 1..Len(drivers) |-> DriverProgress(j - 1, Len(drivers))]

\* steps 1 to 5 and the assembly of the result, up to the upload; progress
\* holds the percentages handed to progress_callback when one is supplied
Compute ==
  /\ pc = "check"
  /\ \/ req.refresh_data
     \/ cache = None
     \/ cache # None /\ ~Decodes(cache[1], cache_size)   \* JSONDecodeError, caught
  /\ \E dd \in DriverData(session, 1) :
       /\ driver_data' = dd
       /\ global_t_min' = GlobalTMin(dd)
       /\ global_t_max' = GlobalTMax(dd)
       /\ IF dd = <<>>
          THEN \* np.arange(None, None, DT)
               /\ pc' = "failed"
               /\ error' = Some("TypeError")
               /\ progress' = IF req.progress_callback
                              THEN LoadingProgress(session.drivers)
                                     \o <<Rat(75, 1)>>
                              ELSE <<>>
               /\ UNCHANGED <<timeline, resampled_data,
                              formatted_track_statuses, frames>>
          ELSE \E sd \in Resorted(dd, 1) :
               LET t_min == GlobalTMin(dd)[1]
                   tl == Timeline(t_min, GlobalTMax(dd)[1])
                   rd == Resample(sd, t_min, tl)
               IN /\ timeline' = tl
                  /\ resampled_data' = rd
                  /\ formatted_track_statuses' =
                       FormatTrackStatuses(session.track_status, 1, t_min, <<>>)
                  /\ frames' = Frames(rd, tl)
                  /\ progress' = IF req.progress_callback
                                 THEN LoadingProgress(session.drivers)
                                        \o <<Rat(75, 1), Rat(80, 1), Rat(95, 1)>>
                                 ELSE <<>>
                  /\ pc' = "upload"
                  /\ error' = None
  /\ UNCHANGED <<session, cache, cache_size, writer,
                 s3, req, result, before, api>>

\* upload_telemetry_to_s3(full_result, year, round, frame_skip): the object
\* is put, or a ClientError is caught and False returned
Upload ==
  /\ pc = "upload"
  /\ \E s3_success \in BOOLEAN :
       s3' = IF s3_success
             THEN [s3 EXCEPT ![req.frame_skip] = Some(Dumps(full_result))]
             ELSE s3
  /\ pc' = "save"
  /\ UNCHANGED <<session, cache, cache_size, writer,
                 req, locals, result, error, before, api>>

\* the full-resolution result is written to the cache file
Save ==
  /\ pc = "save"
  /\ cache' = Some(Dumps(full_result))
  /\ cache_size' = Size(Dumps(full_result))
  /\ pc' = "return"
  /\ UNCHANGED <<session, writer, s3, req, locals, result, error, before, api>>

\* frame skipping is applied to the returned value
Return ==
  /\ pc = "return"
  /\ result' = Some([full_result EXCEPT
                       !.frames = ApplyFrameSkip(frames, req.frame_skip)])
  /\ pc' = "done"
  /\ UNCHANGED <<session, cache, cache_size, writer,
                 s3, req, locals, error, before, api>>

InitLocals ==
  /\ before = [cache |-> None, s3 |-> [k \in 1..MaxSkip |-> None]]
  /\ progress = <<>>
  /\ driver_data = <<>>
  /\ global_t_min = None
  /\ global_t_max = None
  /\ timeline = <<>>
  /\ resampled_data = <<>>
  /\ formatted_track_statuses = <<>>
  /\ frames = <<>>
  /\ result = None
  /\ error = None

\* no other invocation is at its cache write
NoWriter == [pc |-> "idle", offset |-> 0, text |-> None]

\* no request is being served
NoHandler == [endpoint |-> "none", at |-> "idle", frame_skip |-> 1]

InitApi ==
  /\ handler = NoHandler
  /\ sent = <<>>
  /\ response = None
  /\ ppc = "idle"
  /\ percentages = <<>>
  /\ presult = None

\* the service: any number of calls for one race, the cache starts empty
Init ==
  /\ session \in ServiceSessions
  /\ cache = None
  /\ cache_size = 0
  /\ writer = NoWriter
  /\ s3 = [k \in 1..MaxSkip |-> None]
  /\ pc = "idle"
  /\ req = [refresh_data |-> FALSE, frame_skip |-> 1,
            progress_callback |-> FALSE]
  /\ InitLocals
  /\ InitApi

Next ==
  \/ \E refresh_data \in BOOLEAN, frame_skip \in 1..MaxSkip :
       Call(refresh_data, frame_skip)
  \/ CacheHit
  \/ Compute
  \/ Upload
  \/ Save
  \/ Return

Spec == Init /\ [][Next]_vars

\* what a call returns when no call ran before it (no cache file): one
\* value for each order the two sorts may produce
FreshResults(s, frame_skip) ==
  UNION {IF dd = <<>> THEN {None}
         ELSE {LET t_min == GlobalTMin(dd)[1]
                   tl == Timeline(t_min, GlobalTMax(dd)[1])
               IN Some([frames |-> ApplyFrameSkip(Frames(Resample(sd, t_min, tl), tl),
                                                  frame_skip),
                        driver_colors |-> get_driver_colors(s),
                        track_statuses |->
                          FormatTrackStatuses(s.track_status, 1, t_min, <<>>)]) :
               sd \in Resorted(dd, 1)} :
         dd \in DriverData(s, 1)}

\* two deliveries of one race by the provider: the same event name, the
\* last telemetry row of the lap at another time
RevisedSessions ==
  {[drivers |-> <<"A">>,
    laps |-> [c \in Codes |->
                IF c = "A"
                THEN AsLaps(<<<<[t |-> 0, d |-> 0, x |-> 0],
                                [t |-> t2, d |-> 1, x |-> 0]>>>>)
                ELSE <<>>],
    track_status |-> <<>>] : t2 \in {MaxT - 1, MaxT}}

\* between two calls (the last one has returned and its frame is gone) the
\* provider delivers other raw data for the race; str(session), and so the
\* name of the cache file, stays the same
Revise ==
  /\ pc \in {"idle", "done", "failed"}
  /\ session' \in RevisedSessions \ {session}
  /\ pc' = "idle"
  /\ ClearLocals
  /\ result' = None
  /\ error' = None
  /\ UNCHANGED <<cache, cache_size, writer, s3, req, before, api>>

\* the service called for a race whose raw data is revised between calls
InitRevision ==
  /\ session \in RevisedSessions
  /\ cache = None
  /\ cache_size = 0
  /\ writer = NoWriter
  /\ s3 = [k \in 1..MaxSkip |-> None]
  /\ pc = "idle"
  /\ req = [refresh_data |-> FALSE, frame_skip |-> 1,
            progress_callback |-> FALSE]
  /\ InitLocals
  /\ InitApi

NextRevision ==
  \/ Next
  \/ Revise

SpecRevision == InitRevision /\ [][NextRevision]_vars

\* the engine alone: one computation on any session, with a progress hook
InitEngine ==
  /\ session \in Sessions
  /\ cache = None
  /\ cache_size = 0
  /\ writer = NoWriter
  /\ s3 = [k \in 1..MaxSkip |-> None]
  /\ pc = "check"
  /\ req = [refresh_data |-> FALSE, frame_skip |-> 1,
            progress_callback |-> TRUE]
  /\ InitLocals
  /\ InitApi

NextEngine == Compute

SpecEngine == InitEngine /\ [][NextEngine]_vars

\* the race the requests name, as the provider delivers it: no
\* lap at all (the computation fails) or one lap of driver A
EmptySession ==
  [drivers |-> <<"A">>, laps |-> [c \in Codes |-> <<>>], track_status |-> <<>>]
ApiSessions == RevisedSessions \cup {EmptySession}

\* an exception that is not a ClientError (no endpoint, no credentials)
\* leaves upload_telemetry_to_s3 and the call
UploadRaises ==
  /\ pc = "upload"
  /\ pc' = "failed"
  /\ error' = Some("BotoCoreError")
  /\ UNCHANGED <<session, cache, cache_size, writer,
                 s3, req, locals, result, before, api>>

\* open(cache_file, "wb") raises OSError (the file cannot be written): the
\* call ends, the file is as it was
SaveFails ==
  /\ pc = "save"
  /\ pc' = "failed"
  /\ error' = Some("OSError")
  /\ UNCHANGED <<session, cache, cache_size, writer,
                 s3, req, locals, result, before, api>>

\* the service with a bucket and a cache directory that may fail
InitFaults ==
  /\ session \in ApiSessions
  /\ cache = None
  /\ cache_size = 0
  /\ writer = NoWriter
  /\ s3 = [k \in 1..MaxSkip |-> None]
  /\ pc = "idle"
  /\ req = [refresh_data |-> FALSE, frame_skip |-> 1,
            progress_callback |-> FALSE]
  /\ InitLocals
  /\ InitApi

NextFaults ==
  \/ Next
  \/ UploadRaises
  \/ SaveFails

SpecFaults == InitFaults /\ [][NextFaults]_vars

\* the texts an invocation for session s writes to the cache file: the
\* full-resolution result, whatever its frame_skip
CacheTexts(s) == {Dumps(r[1]) : r \in FreshResults(s, 1) \ {None}}

\* another invocation for the race (process_and_save_telemetry runs it in a
\* thread) reaches open(cache_file, "wb"): the file is created or truncated
WriterOpen ==
  /\ writer.pc = "idle"
  /\ \E text \in CacheTexts(session) :
       /\ writer' = [pc |-> "writing", offset |-> 0, text |-> Some(text)]
       /\ cache' = Some(text)
  /\ cache_size' = 0
  /\ UNCHANGED <<session, s3, pc, req, locals, result, error, before, api>>

\* f.write(...) of the writer puts some more of its text on disk, at its
\* own offset; chunks that a write of the same text by the other invocation
\* has already put there stay as they are
WriterWrite ==
  /\ writer.pc = "writing"
  /\ writer.offset < Size(writer.text[1])
  /\ \E n \in (writer.offset + 1)..Size(writer.text[1]) :
       /\ writer' = [writer EXCEPT !.offset = n]
       /\ cache_size' = Max({cache_size, n})
  /\ UNCHANGED <<session, cache, s3, pc, req, locals, result, error, before, api>>

\* the with block of the writer ends
WriterClose ==
  /\ writer.pc = "writing"
  /\ writer.offset = Size(writer.text[1])
  /\ writer' = NoWriter
  /\ UNCHANGED <<session, cache, cache_size, s3, pc, req, locals, result, error,
                 before, api>>

\* calls for a race while other invocations for it rewrite the cache file
InitConcurrent ==
  /\ session \in RevisedSessions
  /\ cache = None
  /\ cache_size = 0
  /\ writer = NoWriter
  /\ s3 = [k \in 1..MaxSkip |-> None]
  /\ pc = "idle"
  /\ req = [refresh_data |-> FALSE, frame_skip |-> 1,
            progress_callback |-> FALSE]
  /\ InitLocals
  /\ InitApi

NextConcurrent ==
  \/ Next
  \/ WriterOpen
  \/ WriterWrite
  \/ WriterClose

SpecConcurrent == InitConcurrent /\ [][NextConcurrent]_vars

\* ============================================================ the API
\* bodies of POST /race-telemetry that pass the validation of the schema;
\* a field the schema does not declare is dropped from the request object
RaceTelemetryRequest ==
  [year : {2024}, round_number : {1}, refresh_data : BOOLEAN]

\* the path parameters of the WebSocket route, in and out of range
Years == {2017, 2024}
RoundNumbers == {1, 25}
\* websocket.query_params: without frame_skip, or with one text as its value
QueryParams ==
  {None} \cup {Some(ToString(n)) : n \in 0..MaxSkip} \cup {Some("11"), Some("abc")}

\* query_params.get("frame_skip", default)
Get(query_params, default) ==
  IF query_params = None THEN default ELSE query_params[1]

\* int(text): Some(n) for the decimal text of n, None for the ValueError
ParseInt(text) ==
  IF \E n \in 0..11 : ToString(n) = text
  THEN Some(CHOOSE n \in 0..11 : ToString(n) = text)
  ELSE None

HandlerFree == handler.at # "running" /\ pc \in {"idle", "done", "failed"}

StartHandler(endpoint, at, frame_skip) ==
  /\ handler' = [endpoint |-> endpoint, at |-> at, frame_skip |-> frame_skip]
  /\ percentages' = <<>>
  /\ presult' = None

\* POST /race-telemetry: the session is loaded (or the load raises), then
\* request.frame_skip is read to build the arguments of get_race_telemetry;
\* every exception becomes HTTPException(500)
PostRaceTelemetry(request) ==
  /\ HandlerFree
  /\ \E loaded \in BOOLEAN :
       response' =
         IF ~loaded THEN Some([status |-> 500, detail |-> "load_race_session"])
         ELSE IF "frame_skip" \notin DOMAIN request
         THEN Some([status |-> 500, detail |-> "AttributeError"])
         ELSE Some([status |-> 200,
                    detail |-> CHOOSE r \in FreshResults(session, request.frame_skip) : TRUE])
  /\ StartHandler("post_race", "responded", 1)
  /\ sent' = <<>>
  /\ ppc' = "idle"
  /\ UNCHANGED <<session, cache, cache_size, writer,
                 s3, pc, req, locals, result, error, before>>

\* the WebSocket route up to the call of process_and_save_telemetry: accept,
\* int() of the frame_skip text outside any try, the three range checks
WsOpen(year, round_number, query_params) ==
  /\ HandlerFree
  /\ response' = None
  /\ LET frame_skip == ParseInt(Get(query_params, "1"))
     IN IF frame_skip = None
        THEN \* ValueError leaves the handler
             /\ StartHandler("ws", "crashed", 1)
             /\ sent' = <<>>
             /\ ppc' = "idle"
        ELSE IF \/ year < 2018 \/ year > 2024
                \/ round_number < 1 \/ round_number > 24
                \/ frame_skip[1] < 1 \/ frame_skip[1] > 10
        THEN /\ StartHandler("ws", "closed", 1)
             /\ sent' = <<[type |-> "error"]>>
             /\ ppc' = "idle"
        ELSE /\ StartHandler("ws", "running", frame_skip[1])
             /\ sent' = <<>>
             /\ ppc' = "start"
  /\ UNCHANGED <<session, cache, cache_size, writer,
                 s3, pc, req, locals, result, error, before>>

\* POST /process-telemetry, after the validation of its query parameters:
\* process_and_save_telemetry is awaited with progress_callback=None
PostProcess(frame_skip) ==
  /\ HandlerFree
  /\ response' = None
  /\ StartHandler("post_process", "running", frame_skip)
  /\ sent' = <<>>
  /\ ppc' = "start"
  /\ UNCHANGED <<session, cache, cache_size, writer,
                 s3, pc, req, locals, result, error, before>>

\* progress_callback(message, p) for each p of ps: send_progress on the
\* WebSocket route, nothing when the callback is None
Notify(ps) ==
  IF handler.endpoint = "ws"
  THEN /\ percentages' = percentages \o ps
       /\ sent' = sent \o [i \in 1..Len(ps) |->
                             [type |-> "progress", progress |-> ps[i]]]
  ELSE UNCHANGED <<percentages, sent>>

\* the percentage reported with the error message
ErrorPercentage == 0

\* "Initializing..." and "Loading race session ..."
ProcStart ==
  /\ ppc = "start"
  /\ Notify(<<0, 10>>)
  /\ ppc' = "load"
  /\ UNCHANGED <<session, cache, cache_size, writer,
                 s3, pc, req, locals, result, error, before,
                 handler, response, presult>>

\* load_race_session returns, "Processing telemetry data..." is reported
\* and get_race_telemetry(session, True, "computed_data", frame_skip) starts
ProcLoad ==
  /\ ppc = "load"
  /\ Notify(<<30>>)
  /\ Invoke(TRUE, handler.frame_skip, FALSE)
  /\ ppc' = "telemetry"
  /\ UNCHANGED <<handler, response, presult>>

\* load_race_session raises: the except branch reports and returns
ProcLoadFails ==
  /\ ppc = "load"
  /\ Notify(<<ErrorPercentage>>)
  /\ presult' = Some([success |-> FALSE])
  /\ ppc' = "returned"
  /\ UNCHANGED <<session, cache, cache_size, writer,
                 s3, pc, req, locals, result, error, before,
                 handler, response>>

\* get_race_telemetry returned: "Finalizing...", the result, "Complete!"
ProcFinalize ==
  /\ ppc = "telemetry"
  /\ pc = "done"
  /\ Notify(<<90, 100>>)
  /\ presult' = Some([success |-> TRUE, frames_count |-> Len(result[1].frames)])
  /\ ppc' = "returned"
  /\ UNCHANGED <<session, cache, cache_size, writer,
                 s3, pc, req, locals, result, error, before,
                 handler, response>>

\* get_race_telemetry raised: the except branch reports and returns
ProcExcept ==
  /\ ppc = "telemetry"
  /\ pc = "failed"
  /\ Notify(<<ErrorPercentage>>)
  /\ presult' = Some([success |-> FALSE])
  /\ ppc' = "returned"
  /\ UNCHANGED <<session, cache, cache_size, writer,
                 s3, pc, req, locals, result, error, before,
                 handler, response>>

\* the WebSocket route after the await: complete or error, then close
WsFinish ==
  /\ handler.endpoint = "ws"
  /\ ppc = "returned"
  /\ sent' = Append(sent, [type |-> IF presult[1].success
                                       THEN "complete" ELSE "error"])
  /\ handler' = [handler EXCEPT !.at = "closed"]
  /\ ppc' = "idle"
  /\ UNCHANGED <<session, cache, cache_size, writer,
                 s3, pc, req, locals, result, error, before,
                 response, percentages, presult>>

\* POST /process-telemetry after the await: "completed" or HTTPException(500)
PostProcessRespond ==
  /\ handler.endpoint = "post_process"
  /\ ppc = "returned"
  /\ response' = IF presult[1].success
                 THEN Some([status |-> 200, detail |-> "completed"])
                 ELSE Some([status |-> 500, detail |-> "Processing failed"])
  /\ handler' = [handler EXCEPT !.at = "responded"]
  /\ ppc' = "idle"
  /\ UNCHANGED <<session, cache, cache_size, writer,
                 s3, pc, req, locals, result, error, before,
                 sent, percentages, presult>>

\* the three routes served one request at a time for one race
InitApiSpec ==
  /\ session \in ApiSessions
  /\ cache = None
  /\ cache_size = 0
  /\ writer = NoWriter
  /\ s3 = [k \in 1..MaxSkip |-> None]
  /\ pc = "idle"
  /\ req = [refresh_data |-> FALSE, frame_skip |-> 1,
            progress_callback |-> FALSE]
  /\ InitLocals
  /\ InitApi

NextApi ==
  \/ \E request \in RaceTelemetryRequest : PostRaceTelemetry(request)
  \/ \E year \in Years, round_number \in RoundNumbers, query_params \in QueryParams :
       WsOpen(year, round_number, query_params)
  \/ \E frame_skip \in 1..MaxSkip : PostProcess(frame_skip)
  \/ ProcStart
  \/ ProcLoad
  \/ ProcLoadFails
  \/ ProcFinalize
  \/ ProcExcept
  \/ WsFinish
  \/ PostProcessRespond
  \/ Compute
  \/ Upload
  \/ Save
  \/ Return

SpecApi == InitApiSpec /\ [][NextApi]_vars

\* ============================================================ claims
Computed == pc \in {"upload", "save", "return", "done"} /\ driver_data # <<>>
Positions(f) == {f.drivers[c].position : c \in DOMAIN f.drivers}

\* C1: in every produced frame the position values of the drivers are
\* exactly 1..N, N the number of drivers of the frame, each held by one driver
C1_PositionsDense ==
  \A i \in 1..Len(frames) :
    LET f == frames[i] IN
      /\ Positions(f) = 1..Cardinality(DOMAIN f.drivers)
      /\ \A a, b \in DOMAIN f.drivers :
           f.drivers[a].position = f.drivers[b].position => a = b

\* a computation has produced a frame that ranks two drivers
C1_Witness ==
  /\ Computed
  /\ \E i \in 1..Len(frames) : Cardinality(DOMAIN frames[i].drivers) = 2

\* lexicographic order of the entity codes
CodeBefore(a, b) == a = "A" /\ b = "B"

\* C2: in every frame a driver with a greater rounded race distance has the
\* smaller position, and of two drivers with equal rounded race distance the
\* one whose code is lexicographically smaller has the smaller position,
\* whatever the order of session.drivers
C2_TieBreakByCode ==
  \A i \in 1..Len(frames) :
    LET d == frames[i].drivers IN
      \A a, b \in DOMAIN d :
        /\ d[a].dist > d[b].dist => d[a].position < d[b].position
        /\ (d[a].dist = d[b].dist /\ CodeBefore(a, b))
              => d[a].position < d[b].position

\* the laps of every driver start in chronological order and no two rows of
\* a driver share a timestamp, so that the sorted order of the rows is unique
ChronologicalLaps(s) ==
  \A c \in Codes :
    LET laps == s.laps[c] IN
      /\ \A i, j \in 1..Len(laps) :
           (i < j /\ laps[i].tel # <<>> /\ laps[j].tel # <<>>)
              => laps[i].tel[1].t < laps[j].tel[1].t
      /\ \A i, j \in 1..Len(laps) :
           \A m \in 1..Len(laps[i].tel), n \in 1..Len(laps[j].tel) :
             (i # j) => laps[i].tel[m].t # laps[j].tel[n].t

\* C3: in the stored rows of every driver (sorted by timestamp) the race
\* distance is non-decreasing, dist[i] <= dist[j] for all i < j, when the
\* laps are visited in chronological order but may overlap in time
C3_RaceDistanceMonotone ==
  ChronologicalLaps(session) =>
    \A k \in 1..Len(driver_data) :
      LET data == driver_data[k].data IN
        \A i, j \in 1..Len(data) : i < j => data[i].dist <= data[j].dist

\* C4 as stated: with a span of at least DT the number of ticks, and of
\* full-resolution frames, is floor(span / DT)
C4_TickCountIsFloor ==
  (Computed /\ global_t_max[1] - global_t_min[1] >= DT) =>
     /\ Len(timeline) = (global_t_max[1] - global_t_min[1]) \div DT
     /\ Len(frames) = Len(timeline)

\* C4 as amended: the ticks are the multiples 0, DT, 2 DT, ... of DT that are
\* strictly below the span, all of them, so their number is ceil(span / DT);
\* every tick has a frame
C4_TicksBelowSpan ==
  (Computed /\ global_t_max[1] - global_t_min[1] >= DT) =>
     LET span == global_t_max[1] - global_t_min[1] IN
       /\ \A i \in 1..Len(timeline) :
            timeline[i] = (i - 1) * DT /\ timeline[i] < span
       /\ Len(timeline) * DT >= span
       /\ Len(frames) = Len(timeline)
       /\ \A i \in 1..Len(frames) : frames[i].t = timeline[i]

\* a computation over a span that is at least DT and not a multiple of DT
C4_Witness ==
  /\ Computed
  /\ global_t_max[1] - global_t_min[1] >= DT
  /\ (global_t_max[1] - global_t_min[1]) % DT # 0
  /\ Len(frames) = 2

\* C5: the track status list has one interval per event, in the order of
\* the events; interval i starts at event i's time minus global_t_min and
\* ends where interval i + 1 starts; the last interval has no end
C5_StatusIntervals ==
  Computed =>
    LET ev == session.track_status
        st == formatted_track_statuses
    IN /\ Len(st) = Len(ev)
       /\ \A i \in 1..Len(st) :
            /\ st[i].status = ev[i].Status
            /\ st[i].start_time = ev[i].Time - global_t_min[1]
            /\ st[i].end_time = IF i < Len(st) THEN Some(st[i + 1].start_time)
                                ELSE None

\* two events out of chronological order, the first one before the first
\* telemetry row (negative start time)
C5_Witness ==
  /\ Computed
  /\ Len(formatted_track_statuses) = 2
  /\ formatted_track_statuses[1].start_time < 0
  /\ formatted_track_statuses[2].start_time < formatted_track_statuses[1].start_time

Finished == pc \in {"done", "failed"}
ServedFromCache == pc = "done" /\ driver_data = <<>>

\* out holds exactly the elements of full at the indices 0, k, 2k, ...
\* (counted from 0), in their order and unchanged
IsStride(out, full, k) ==
  /\ Len(out) = Cardinality({i \in 0..(Len(full) - 1) : i % k = 0})
  /\ \A j \in 1..Len(out) : out[j] = full[(j - 1) * k + 1]

\* C6: the returned frames are the frames at the indices 0, k, 2k, ... of the
\* full-resolution sequence, in order and unchanged: of the frames just
\* computed on a fresh computation, of the frames the cache file holds when
\* the result is served from the cache
C6_FrameSkipStride ==
  pc = "done" =>
    IsStride(result[1].frames,
             IF ServedFromCache THEN Loads(cache[1]).frames ELSE frames,
             req.frame_skip)

\* a call with frame_skip 2 served from a cache file of three frames
C6_Witness ==
  /\ ServedFromCache
  /\ req.frame_skip = 2
  /\ Len(cache[1].frames) = 3
  /\ Len(result[1].frames) = 2

\* the drivers of the session that have at least one telemetry row
HasRows(s, c) == \E i \in 1..Len(s.laps[c]) : s.laps[c][i].tel # <<>>
Contributors(s) == {c \in SeqRange(s.drivers) : HasRows(s, c)}

\* C8: every frame has the same drivers key set, the codes of the drivers
\* that contributed at least one row; the computation fails only when no
\* driver contributed a row, never because some driver has no lap or only
\* empty laps
C8_SameDriversEveryFrame ==
  /\ \A i \in 1..Len(frames) : DOMAIN frames[i].drivers = Contributors(session)
  /\ pc = "failed" => Contributors(session) = {}

\* frames were produced for a session that lists a driver whose only lap has
\* no telemetry row
C8_Witness ==
  /\ Computed
  /\ frames # <<>>
  /\ \E c \in SeqRange(session.drivers) : session.laps[c] # <<>> /\ ~HasRows(session, c)

\* the span between the first and the last telemetry row of the session
AllRows(s) ==
  UNION {UNION {SeqRange(s.laps[c][i].tel) : i \in 1..Len(s.laps[c])} :
           c \in SeqRange(s.drivers)}
SessionSpan(s) ==
  Max({r.t : r \in AllRows(s)}) - Min({r.t : r \in AllRows(s)})

Finite(s) == \A r \in AllRows(s) : r.x # NaN

\* C9: a call on a session (of finite values) in which no driver has a row,
\* or whose span is below DT, fails and returns no result
C9_InsufficientDataFails ==
  (Finished /\ Finite(session) /\
   (AllRows(session) = {} \/ SessionSpan(session) < DT)) =>
     pc = "failed" /\ result = None

\* C10: a call on a session (spanning at least DT) with a non-finite value in
\* a required channel fails and returns no result
C10_NonFiniteFails ==
  (Finished /\ ~Finite(session) /\ SessionSpan(session) >= DT) =>
     pc = "failed" /\ result = None


\* ------------------------------------------------------------ C11
LeqRat(a, b) == a.num * b.den <= b.num * a.den

\* C11: the percentages handed to the progress hook of one
\* get_race_telemetry call never decrease, whatever the number of drivers
C11_ProgressNonDecreasing ==
  \A i, j \in 1..Len(progress) :
    i < j => LeqRat(progress[i], progress[j])

\* a computation over two listed drivers that reported every stage
C11_Witness ==
  /\ Computed
  /\ Len(session.drivers) = 2
  /\ Len(progress) = 5
  /\ progress[2] = DriverProgress(1, 2)
  /\ progress[5] = Rat(95, 1)

\* ------------------------------------------------------------ C12
\* C12: the result of a call depends only on the call's raw inputs and
\* parameters: whatever calls ran before it, a completed call returns what
\* a call with the same session, refresh_data and frame_skip returns when
\* nothing ran before
C12_ResultDependsOnInputsOnly ==
  pc = "done" => result \in FreshResults(session, req.frame_skip)

\* ------------------------------------------------------------ C13
\* the shifted timestamps of the trace at index k of driver_data
ShiftedTimes(k) ==
  {driver_data[k].data[j].t - global_t_min[1] :
     j \in 1..Len(driver_data[k].data)}

\* the resampled channels of driver k at tick i are the raw channels of a
\* sample of the driver whose shifted timestamp is ts
TakesSampleAt(k, i, ts) ==
  \E j \in 1..Len(driver_data[k].data) :
    LET r == driver_data[k].data[j]
    IN /\ r.t - global_t_min[1] = ts
       /\ resampled_data[k].x[i] = Float(r.x)
       /\ resampled_data[k].dist[i] = Float(r.dist)
       /\ resampled_data[k].lap[i] = Float(r.lap)

\* C13: a tick earlier than a driver's first shifted timestamp takes the
\* values of the driver's first sample, a tick later than its last
\* timestamp those of its last sample, and the driver is in the frame of
\* every such tick
C13_ClampedOutsideRange ==
  Computed =>
    \A k \in 1..Len(driver_data), i \in 1..Len(timeline) :
      /\ timeline[i] < Min(ShiftedTimes(k)) =>
           /\ TakesSampleAt(k, i, Min(ShiftedTimes(k)))
           /\ driver_data[k].code \in DOMAIN frames[i].drivers
      /\ timeline[i] > Max(ShiftedTimes(k)) =>
           /\ TakesSampleAt(k, i, Max(ShiftedTimes(k)))
           /\ driver_data[k].code \in DOMAIN frames[i].drivers

\* a driver whose samples start after the first tick and end before the
\* last one, with a last sample that differs from its first
C13_Witness ==
  /\ Computed
  /\ \E k \in 1..Len(driver_data), i, j \in 1..Len(timeline) :
       /\ timeline[i] < Min(ShiftedTimes(k))
       /\ timeline[j] > Max(ShiftedTimes(k))
       /\ resampled_data[k].dist[i] # resampled_data[k].dist[j]

\* ------------------------------------------------------------ C14
\* C14: after the sort of the extraction step the timestamps of every
\* driver's trace are strictly increasing, also when two laps contribute
\* samples with the same timestamp
C14_TimestampsStrictlyIncreasing ==
  Computed =>
    \A k \in 1..Len(driver_data) :
      \A i, j \in 1..Len(driver_data[k].data) :
        i < j => driver_data[k].data[i].t < driver_data[k].data[j].t

\* ------------------------------------------------------------ C15
\* C15: POST /race-telemetry with a valid request whose session loads and
\* whose telemetry computes is answered with the telemetry payload, not
\* with an error response
C15_PostRaceTelemetryReturnsPayload ==
  (/\ handler.endpoint = "post_race"
   /\ handler.at = "responded"
   /\ response[1].detail # "load_race_session"
   /\ None \notin FreshResults(session, 1))
  => response[1].status = 200

\* ------------------------------------------------------------ C16
Terminal(m) == m.type \in {"complete", "error"}

\* C16: on a WebSocket connection the server sends progress messages only
\* while the handler runs, and the handler ends with the connection closed
\* after exactly one terminal message (complete or error), the last one
C16_WebSocketProtocol ==
  handler.endpoint = "ws" =>
    /\ handler.at = "running" =>
         \A i \in 1..Len(sent) : sent[i].type = "progress"
    /\ handler.at # "running" =>
         /\ handler.at = "closed"
         /\ Len(sent) >= 1
         /\ Terminal(sent[Len(sent)])
         /\ \A i \in 1..(Len(sent) - 1) : sent[i].type = "progress"

\* ------------------------------------------------------------ C17
\* C17: the step in which POST /process-telemetry returns its response is
\* taken before process_and_save_telemetry has returned
C17_RespondsBeforeProcessingEnds ==
  [][(/\ handler.endpoint = "post_process"
      /\ response = None
      /\ response' # None) => ppc # "returned"]_vars

\* ------------------------------------------------------------ C20
\* C20: the percentages handed to the progress callback of one run of
\* process_and_save_telemetry lie within 0..100 and never decrease, on
\* runs that succeed and on runs that fail
C20_CallbackNonDecreasing ==
  /\ \A i \in 1..Len(percentages) : percentages[i] \in 0..100
  /\ \A i, j \in 1..Len(percentages) :
       i < j => percentages[i] <= percentages[j]

\* ------------------------------------------------------------ C19
\* C19: a call that failed returned nothing and left the cache file and
\* the S3 objects of the race as it found them
C19_FailureLeavesNothing ==
  pc = "failed" =>
    /\ result = None
    /\ cache = before.cache
    /\ s3 = before.s3

\* ------------------------------------------------------------ C18
\* the frames a computation that finds no cache file returns
FreshFrames(s, frame_skip) ==
  {r[1].frames : r \in FreshResults(s, frame_skip) \ {None}}

\* C18: once the race has been computed, a call with refresh_data = false
\* returns without computing or uploading anything, and its frames are
\* those of a fresh computation with the same frame_skip
C18_ComputeIfAbsent ==
  ServedFromCache =>
    /\ cache = before.cache
    /\ s3 = before.s3
    /\ result[1].frames \in FreshFrames(session, req.frame_skip)

============================================================================
